---- MODULE Spec2Model ----
(***************************************************************************)
(* Model of app.py: the start-up pipeline (fetch_data, process_data for    *)
(* each indicator, pd.merge, df = merged_df.copy()) followed by the Dash   *)
(* callback update_dashboard filtering the module-level table df.          *)
(*                                                                         *)
(* Data representation                                                     *)
(*   - a nullable cell is <<>> (None / NaN) or <<x>>;                      *)
(*   - a JSON value is [type, items]; the records array is type "array";   *)
(*   - a string of decimal digits ("1960") is a sequence of digits;        *)
(*   - a float64 is [m, e] with value m * 2^e and m odd or zero;           *)
(*   - a DataFrame is [columns, rows], a row maps column names to cells;   *)
(*     pd.DataFrame() is the frame with no columns and no rows.            *)
(***************************************************************************)
EXTENDS Integers, Sequences, FiniteSets, TLC

VARIABLES pc, i, response, raw_data, all_data, merged_df, df, printed,
          fetch_calls, merge_calls, callback_args, data, columns, error

vars == <<pc, i, response, raw_data, all_data, merged_df, df, printed,
          fetch_calls, merge_calls, callback_args, data, columns, error>>

-----------------------------------------------------------------------------
(* Bounds of the model *)

\* longest records array a response carries in the start-up pipeline
MaxFetched == 1
\* longest records array handed to process_data in SpecProcess
MaxRecords == 2
\* most rows of one table handed to pd.merge in SpecMerge
MaxRows == 2

-----------------------------------------------------------------------------
(* Generic helpers *)

None == <<>>
Some(x) == <<x>>

Range(s) == {s[k] : k \in 1..Len(s)}

SeqsUpTo(S, n) == UNION {[1..k -> S] : k \in 0..n}

RECURSIVE Pow2(_)
Pow2(n) == IF n = 0 THEN 1 ELSE 2 * Pow2(n - 1)

-----------------------------------------------------------------------------
(* Program constants *)

country_codes == <<"AFG", "IND", "PAK", "BGD", "LKA">>

IndicatorNames == <<"Population", "Net Migration">>

indicators == ("Population" :> "SP.POP.TOTL") @@ ("Net Migration" :> "SM.POP.NETM")

HTTP_OK == 200

\* lexicographic rank of the country codes (string comparison)
CodeRank == ("AFG" :> 1) @@ ("BGD" :> 2) @@ ("IND" :> 3) @@ ("LKA" :> 4) @@ ("PAK" :> 5)

start_year == 1960
end_year == 2023

-----------------------------------------------------------------------------
(* JSON values and HTTP responses *)

JsonNull == [type |-> "null", items |-> <<>>]
JsonObject == [type |-> "object", items |-> <<>>]
JsonArray(s) == [type |-> "array", items |-> s]

\* Python's [] literal
EmptyList == JsonArray(<<>>)

\* len() of a parsed JSON envelope
PyLen(envelope) == Len(envelope)

\* bool() of a value returned by fetch_data: None and [] are falsy
Truthy(v) == v.type = "array" /\ v.items # <<>>

NoResponse == [status |-> 0, envelope |-> <<>>]

-----------------------------------------------------------------------------
(* fetch_data, lines 9-26: given the response of requests.get, the value   *)
(* returned and the lines printed.                                        *)

fetch_data_ignoring_status(indicator, resp) ==
    IF PyLen(resp.envelope) > 1
    THEN [ret |-> resp.envelope[2], out |-> <<>>]
    ELSE [ret |-> EmptyList,
          out |-> <<[msg |-> "No data found", indicator |-> indicator, status |-> 0]>>]

fetch_data_first_element(indicator, resp) ==
    IF resp.status = HTTP_OK
    THEN IF PyLen(resp.envelope) > 1
         THEN [ret |-> resp.envelope[1], out |-> <<>>]
         ELSE [ret |-> EmptyList,
               out |-> <<[msg |-> "No data found", indicator |-> indicator, status |-> 0]>>]
    ELSE [ret |-> EmptyList,
          out |-> <<[msg |-> "Failed to fetch data", indicator |-> indicator,
                     status |-> resp.status]>>]

fetch_data(indicator, resp) ==
    IF resp.status = HTTP_OK
    THEN IF PyLen(resp.envelope) > 1
         THEN [ret |-> resp.envelope[2], out |-> <<>>]
         ELSE [ret |-> EmptyList,
               out |-> <<[msg |-> "No data found", indicator |-> indicator, status |-> 0]>>]
    ELSE [ret |-> EmptyList,
          out |-> <<[msg |-> "Failed to fetch data", indicator |-> indicator,
                     status |-> resp.status]>>]

-----------------------------------------------------------------------------
(* DataFrames *)

\* pd.DataFrame()
EmptyFrame == [columns |-> <<>>, rows |-> <<>>]

\* the value of a name that has not been bound yet
Unbound == [columns |-> <<"<unbound>">>, rows |-> <<>>]

\* pd.DataFrame(list of dicts): one row per record, the columns are the keys
FrameOfRecords(items) ==
    [columns |-> <<"countryiso3code", "date", "value", "obs_status">>,
     rows |-> [k \in 1..Len(items) |->
                 ("countryiso3code" :> items[k].countryiso3code)
              @@ ("date" :> items[k].date)
              @@ ("value" :> items[k].value)
              @@ ("obs_status" :> items[k].obs_status)]]

\* df[[c1, c2, ...]]
SelectColumns(f, cols) ==
    [columns |-> cols,
     rows |-> [k \in 1..Len(f.rows) |-> [c \in Range(cols) |-> f.rows[k][c]]]]

\* df.columns = [n1, n2, ...]: positional renaming
RenameColumns(f, names) ==
    [columns |-> names,
     rows |-> [k \in 1..Len(f.rows) |->
                 [c \in Range(names) |->
                    f.rows[k][f.columns[CHOOSE p \in 1..Len(names) : names[p] = c]]]]]

HasNull(row) == \E c \in DOMAIN row : row[c] = None

\* df.dropna(): drops every row with a null in any column of the frame
DropNa(f) == [f EXCEPT !.rows = SelectSeq(f.rows, LAMBDA r : ~HasNull(r))]

\* dropna(subset=[...]): drops the rows with a null in one of the named columns
DropNaSubset(f, subset) ==
    [f EXCEPT !.rows = SelectSeq(f.rows, LAMBDA r : \A c \in subset : r[c] # None)]

\* int("1960")
RECURSIVE ParseInt(_)
ParseInt(digits) ==
    IF digits = <<>> THEN 0
    ELSE 10 * ParseInt(SubSeq(digits, 1, Len(digits) - 1)) + digits[Len(digits)]

\* float(n) for an integer n below 2^53 in magnitude: exact, m odd or zero
RECURSIVE ToFloat(_, _)
ToFloat(m, e) ==
    IF m = 0 THEN [m |-> 0, e |-> 0]
    ELSE IF m % 2 = 0 THEN ToFloat(m \div 2, e + 1)
    ELSE [m |-> m, e |-> e]

\* the number a float64 denotes
FloatValue(x) == x.m * Pow2(x.e)

\* Series.astype(int) on a column of digit strings
AsTypeInt(cell) == Some(ParseInt(cell[1]))

\* Series.astype(float): None becomes NaN
AsTypeFloat(cell) == IF cell = None THEN None ELSE Some(ToFloat(cell[1], 0))

\* df['Year'] = df['Year'].astype(int)
YearAsInt(f) ==
    [f EXCEPT !.rows = [k \in 1..Len(f.rows) |->
                          [f.rows[k] EXCEPT !["Year"] = AsTypeInt(f.rows[k]["Year"])]]]

\* df['Value'] = df['Value'].astype(float)
ValueAsFloat(f) ==
    [f EXCEPT !.rows = [k \in 1..Len(f.rows) |->
                          [f.rows[k] EXCEPT !["Value"] = AsTypeFloat(f.rows[k]["Value"])]]]

-----------------------------------------------------------------------------
(* process_data, lines 29-39 *)

TableColumns == <<"Country Code", "Year", "Value">>

process_data_dropna_first(raw) ==
    IF Truthy(raw)
    THEN LET df0 == DropNa(FrameOfRecords(raw.items))
             df1 == SelectColumns(df0, <<"countryiso3code", "date", "value">>)
             df2 == RenameColumns(df1, TableColumns)
             df4 == YearAsInt(df2)
             df5 == ValueAsFloat(df4)
         IN  df5
    ELSE EmptyFrame

process_data_dropna_keys_only(raw) ==
    IF Truthy(raw)
    THEN LET df0 == FrameOfRecords(raw.items)
             df1 == SelectColumns(df0, <<"countryiso3code", "date", "value">>)
             df2 == RenameColumns(df1, TableColumns)
             df3 == DropNaSubset(df2, {"Country Code", "Year"})
             df4 == YearAsInt(df3)
             df5 == ValueAsFloat(df4)
         IN  df5
    ELSE EmptyFrame

process_data(raw) ==
    IF Truthy(raw)
    THEN LET df0 == FrameOfRecords(raw.items)
             df1 == SelectColumns(df0, <<"countryiso3code", "date", "value">>)
             df2 == RenameColumns(df1, TableColumns)
             df3 == DropNa(df2)
             df4 == YearAsInt(df3)
             df5 == ValueAsFloat(df4)
         IN  df5
    ELSE EmptyFrame

-----------------------------------------------------------------------------
(* pd.merge(left, right, on=..., how='outer', suffixes=...), lines 59-64 *)

MergeOn == <<"Country Code", "Year">>
MergeSuffixes == <<"_Population", "_Net Migration">>

\* merge raises KeyError when a key column is missing from either frame
MergeRaises(left, right, on) ==
    \E c \in Range(on) : c \notin Range(left.columns) \/ c \notin Range(right.columns)

KeyOf(row, on) == [k \in 1..Len(on) |-> row[on[k]]]

KeysOf(f, on) == {KeyOf(f.rows[k], on) : k \in 1..Len(f.rows)}

\* order of the (Country Code, Year) key tuples
KeyLess(a, b) ==
    \/ CodeRank[a[1][1]] < CodeRank[b[1][1]]
    \/ a[1] = b[1] /\ a[2][1] < b[2][1]

RECURSIVE SortKeys(_)
SortKeys(S) ==
    IF S = {} THEN <<>>
    ELSE LET lo == CHOOSE a \in S : \A b \in S \ {a} : KeyLess(a, b)
         IN  <<lo>> \o SortKeys(S \ {lo})

RECURSIVE Flatten(_)
Flatten(ss) == IF ss = <<>> THEN <<>> ELSE Head(ss) \o Flatten(Tail(ss))

\* columns both frames have besides the keys: they get the suffixes
Overlap(left, right, on) ==
    (Range(left.columns) \cap Range(right.columns)) \ Range(on)

NonKey(cols, on) == SelectSeq(cols, LAMBDA c : c \notin Range(on))

Suffixed(cols, overlap, suffix) ==
    [k \in 1..Len(cols) |-> IF cols[k] \in overlap THEN cols[k] \o suffix ELSE cols[k]]

\* the merged row of a left row and a right row; NoRow stands for no match
NoRow == <<>>

JoinRow(l, r, on, lcols, rcols, overlap, suffixes) ==
    LET lnames == Suffixed(lcols, overlap, suffixes[1])
        rnames == Suffixed(rcols, overlap, suffixes[2])
        keys   == [c \in Range(on) |-> IF l # NoRow THEN l[c] ELSE r[c]]
        lpart  == [c \in Range(lnames) |->
                     IF l = NoRow THEN None
                     ELSE l[lcols[CHOOSE p \in 1..Len(lnames) : lnames[p] = c]]]
        rpart  == [c \in Range(rnames) |->
                     IF r = NoRow THEN None
                     ELSE r[rcols[CHOOSE p \in 1..Len(rnames) : rnames[p] = c]]]
    IN  keys @@ lpart @@ rpart

\* the merged rows of one key: every left row with every right row of that
\* key, or the rows of the one side padded with nulls
RowsOfKey(key, left, right, on, lcols, rcols, overlap, suffixes) ==
    LET ls == SelectSeq(left.rows, LAMBDA x : KeyOf(x, on) = key)
        rs == SelectSeq(right.rows, LAMBDA x : KeyOf(x, on) = key)
    IN  IF rs = <<>>
        THEN [k \in 1..Len(ls) |->
                JoinRow(ls[k], NoRow, on, lcols, rcols, overlap, suffixes)]
        ELSE IF ls = <<>>
        THEN [k \in 1..Len(rs) |->
                JoinRow(NoRow, rs[k], on, lcols, rcols, overlap, suffixes)]
        ELSE Flatten([k \in 1..Len(ls) |->
                [j \in 1..Len(rs) |->
                   JoinRow(ls[k], rs[j], on, lcols, rcols, overlap, suffixes)]])

\* the frame pd.merge returns when it does not raise
Merge(left, right, on, suffixes) ==
    LET overlap == Overlap(left, right, on)
        lcols   == NonKey(left.columns, on)
        rcols   == NonKey(right.columns, on)
        keys    == SortKeys(KeysOf(left, on) \cup KeysOf(right, on))
    IN  [columns |-> Suffixed(left.columns, overlap, suffixes[1])
                     \o Suffixed(rcols, overlap, suffixes[2]),
         rows |-> Flatten([k \in 1..Len(keys) |->
                     RowsOfKey(keys[k], left, right, on, lcols, rcols, overlap, suffixes)])]

-----------------------------------------------------------------------------
(* update_dashboard, lines 194-256: the filtered rows and the table outputs *)

\* df["Year"] >= lo on a nullable cell: a comparison with NaN is False
CellGE(cell, lo) == cell # None /\ cell[1] >= lo
CellLE(cell, hi) == cell # None /\ cell[1] <= hi
CellIsIn(cell, values) == cell # None /\ cell[1] \in values

FilterRows(f, selected_countries, selected_year_range) ==
    [f EXCEPT !.rows = SelectSeq(f.rows, LAMBDA r :
        /\ CellIsIn(r["Country Code"], selected_countries)
        /\ CellGE(r["Year"], selected_year_range[1])
        /\ CellLE(r["Year"], selected_year_range[2]))]

\* [{"name": col, "id": col} for col in filtered_df.columns]
ColumnSpecs(f) == [k \in 1..Len(f.columns) |-> [name |-> f.columns[k], id |-> f.columns[k]]]

-----------------------------------------------------------------------------
(* Inputs: what the statistics service may answer, what the user may pick *)

SampleCodes == {"AFG", "IND"}
SampleDates == {<<1, 9, 6, 0>>, <<2, 0, 2, 3>>}
SampleValues(name) == IF name = "Population" THEN {5, 6} ELSE {-3}
SampleYears == {start_year, 1990, end_year}
\* one value per indicator is enough where the two tables come from two fetches
PipelineValues(name) == IF name = "Population" THEN {5} ELSE {-3}

Nullable(S) == {None} \cup {Some(x) : x \in S}
Present(S) == {Some(x) : x \in S}

\* records of the documented shape, the value nullable
PipelineRecords(name) ==
    [countryiso3code : Present(SampleCodes), date : Present(SampleDates),
     value : Nullable(PipelineValues(name)), obs_status : Present({""})]

\* as above, and a fourth source field that may be null as well
FullRecords ==
    [countryiso3code : Nullable(SampleCodes), date : Nullable(SampleDates),
     value : Nullable(SampleValues("Population")), obs_status : Nullable({""})]

\* complete records, and incomplete ones (a null value)
MergeRecords(name) ==
    [countryiso3code : Present(SampleCodes), date : Present(SampleDates),
     value : Present(SampleValues(name)), obs_status : Present({""})]
    \cup [countryiso3code : Present({"AFG"}), date : Present({<<1, 9, 6, 0>>}),
          value : {None}, obs_status : Present({""})]

OneRecord(name) ==
    [countryiso3code |-> Some("AFG"), date |-> Some(<<1, 9, 6, 0>>),
     value |-> Some(CHOOSE v \in PipelineValues(name) : TRUE), obs_status |-> Some("")]

Envelopes(name) ==
    {<<>>, <<JsonObject>>, <<JsonObject, JsonNull>>,
     <<JsonObject, JsonArray(<<OneRecord(name)>>), JsonObject>>}
    \cup {<<JsonObject, JsonArray(s)>> : s \in SeqsUpTo(PipelineRecords(name), MaxFetched)}

Responses(name) ==
    [status : {HTTP_OK}, envelope : Envelopes(name)]
    \cup [status : {404, 500},
          envelope : {<<>>, <<JsonObject>>, <<JsonObject, JsonArray(<<OneRecord(name)>>)>>}]

Selections == SUBSET SampleCodes
YearRanges == {<<lo, hi>> \in SampleYears \X SampleYears : lo <= hi}

-----------------------------------------------------------------------------
(* State machine *)

NoArgs == [selected_countries |-> {}, selected_year_range |-> <<0, 0>>]

\* all_data.get(name, default)
DictGet(d, name, default) == IF name \in DOMAIN d THEN d[name] ELSE default

\* the for loop of lines 51-54: what follows the body for the i-th indicator
AfterBody_merge_early(k) == "merge"

AfterBody(k) == IF k < Len(IndicatorNames) THEN "fetch" ELSE "merge"

\* update_dashboard: the module's df after the call and the table outputs
update_dashboard_in_place(f, selected_countries, selected_year_range) ==
    LET filtered_df == FilterRows(f, selected_countries, selected_year_range)
    IN  [df |-> filtered_df, data |-> filtered_df.rows, columns |-> ColumnSpecs(filtered_df)]

update_dashboard_exclusive_upper(f, selected_countries, selected_year_range) ==
    LET filtered_df == FilterRows(f, selected_countries,
                           <<selected_year_range[1], selected_year_range[2] - 1>>)
    IN  [df |-> f, data |-> filtered_df.rows, columns |-> ColumnSpecs(filtered_df)]

update_dashboard(f, selected_countries, selected_year_range) ==
    LET filtered_df == FilterRows(f, selected_countries, selected_year_range)
    IN  [df |-> f, data |-> filtered_df.rows, columns |-> ColumnSpecs(filtered_df)]

Init ==
    /\ pc = "fetch"
    /\ i = 1
    /\ response = NoResponse
    /\ raw_data = EmptyList
    /\ all_data = <<>>
    /\ merged_df = Unbound
    /\ df = Unbound
    /\ printed = <<>>
    /\ fetch_calls = [n \in Range(IndicatorNames) |-> 0]
    /\ merge_calls = 0
    /\ callback_args = NoArgs
    /\ data = <<>>
    /\ columns = <<>>
    /\ error = ""

\* line 52: raw_data = fetch_data(country_codes, indicator, start_year, end_year)
Fetch ==
    /\ pc = "fetch"
    /\ \E resp \in Responses(IndicatorNames[i]) :
         LET r == fetch_data(indicators[IndicatorNames[i]], resp)
         IN  /\ response' = resp
             /\ raw_data' = r.ret
             /\ printed' = printed \o r.out
    /\ fetch_calls' = [fetch_calls EXCEPT ![IndicatorNames[i]] = @ + 1]
    /\ pc' = "process"
    /\ UNCHANGED <<i, all_data, merged_df, df, merge_calls, callback_args, data,
                   columns, error>>

\* lines 53-54: all_data[name] = process_data(raw_data), then the loop goes on
ProcessData ==
    /\ pc = "process"
    /\ all_data' = (IndicatorNames[i] :> process_data(raw_data)) @@ all_data
    /\ response' = NoResponse
    /\ i' = i + 1
    /\ pc' = AfterBody(i)
    /\ UNCHANGED <<raw_data, merged_df, df, printed, fetch_calls, merge_calls,
                   callback_args, data, columns, error>>

\* lines 56-64: the merge of the two tables, which may raise KeyError
MergeTables ==
    /\ pc = "merge"
    /\ DOMAIN all_data # {}
    /\ merge_calls' = merge_calls + 1
    /\ LET population_df == DictGet(all_data, "Population", EmptyFrame)
           migration_df == DictGet(all_data, "Net Migration", EmptyFrame)
       IN  IF MergeRaises(population_df, migration_df, MergeOn)
           THEN /\ error' = "KeyError"
                /\ pc' = "crashed"
                /\ UNCHANGED merged_df
           ELSE /\ merged_df' = Merge(population_df, migration_df, MergeOn, MergeSuffixes)
                /\ pc' = "copy"
                /\ UNCHANGED error
    /\ UNCHANGED <<i, response, raw_data, all_data, df, printed, fetch_calls,
                   callback_args, data, columns>>

\* line 66: df = merged_df.copy()
CopyDf ==
    /\ pc = "copy"
    /\ df' = merged_df
    /\ pc' = "serve"
    /\ UNCHANGED <<i, response, raw_data, all_data, merged_df, printed, fetch_calls,
                   merge_calls, callback_args, data, columns, error>>

\* lines 194-256: the callback, fired for a selection and a year range
UpdateDashboard ==
    /\ pc = "serve"
    /\ \E sel \in Selections, rng \in YearRanges :
         LET out == update_dashboard(df, sel, rng)
         IN  /\ callback_args' = [selected_countries |-> sel, selected_year_range |-> rng]
             /\ df' = out.df
             /\ data' = out.data
             /\ columns' = out.columns
    /\ UNCHANGED <<pc, i, response, raw_data, all_data, merged_df, printed,
                   fetch_calls, merge_calls, error>>

Next == Fetch \/ ProcessData \/ MergeTables \/ CopyDf \/ UpdateDashboard

Spec == Init /\ [][Next]_vars

-----------------------------------------------------------------------------
(* process_data on every records array up to MaxRecords long: the state    *)
(* after the first fetch has returned it.                                  *)

ProcessInputs ==
    {JsonNull} \cup {JsonArray(s) : s \in SeqsUpTo(FullRecords, MaxRecords)}

InitProcess ==
    /\ pc = "process"
    /\ i = 1
    /\ \E s \in ProcessInputs :
         /\ response = [status |-> HTTP_OK, envelope |-> <<JsonObject, s>>]
         /\ raw_data = s
    /\ all_data = <<>>
    /\ merged_df = Unbound
    /\ df = Unbound
    /\ printed = <<>>
    /\ fetch_calls = [n \in Range(IndicatorNames) |-> IF n = "Population" THEN 1 ELSE 0]
    /\ merge_calls = 0
    /\ callback_args = NoArgs
    /\ data = <<>>
    /\ columns = <<>>
    /\ error = ""

NextProcess == ProcessData

SpecProcess == InitProcess /\ [][NextProcess]_vars

-----------------------------------------------------------------------------
(* pd.merge on every pair of tables process_data returns for records       *)
(* arrays up to MaxRows long: the state after the loop has ended.          *)

MergeInputs(name) == {JsonArray(s) : s \in SeqsUpTo(MergeRecords(name), MaxRows)}

InitMerge ==
    /\ pc = "merge"
    /\ i = Len(IndicatorNames) + 1
    /\ response = NoResponse
    /\ \E s1 \in MergeInputs("Population"), s2 \in MergeInputs("Net Migration") :
         /\ raw_data = s2
         /\ all_data = ("Population" :> process_data(s1))
                       @@ ("Net Migration" :> process_data(s2))
    /\ merged_df = Unbound
    /\ df = Unbound
    /\ printed = <<>>
    /\ fetch_calls = [n \in Range(IndicatorNames) |-> 1]
    /\ merge_calls = 0
    /\ callback_args = NoArgs
    /\ data = <<>>
    /\ columns = <<>>
    /\ error = ""

NextMerge == MergeTables \/ CopyDf

SpecMerge == InitMerge /\ [][NextMerge]_vars

-----------------------------------------------------------------------------
(* Properties *)

Population == "Population"
NetMigration == "Net Migration"

\* a step in which fetch_data is called and returns
FetchStep == pc = "fetch" /\ pc' = "process"

\* the start-up code has run pd.merge (it returned or it raised)
MergeDone == pc \in {"copy", "serve", "crashed"}

\* the year a four-digit date string denotes
YearOf(d) == 1000 * d[1] + 100 * d[2] + 10 * d[3] + d[4]

Complete(rec) == rec.countryiso3code # None /\ rec.date # None /\ rec.value # None

\* C1: whenever the response status is not 200, fetch_data returns the empty
\* list without raising, and its only other effect is one printed notice
\* that names the indicator requested.
C1_FailSoftFetch ==
    [][(FetchStep /\ response'.status # HTTP_OK) =>
          /\ raw_data' = EmptyList
          /\ error' = ""
          /\ Len(printed') = Len(printed) + 1
          /\ SubSeq(printed', 1, Len(printed)) = printed
          /\ printed'[Len(printed')].indicator = indicators[IndicatorNames[i]]
          /\ UNCHANGED <<all_data, merged_df, df, data, columns, callback_args>>]_vars

\* a failed fetch whose body carried records all the same
C1_Witness ==
    /\ pc = "process"
    /\ response.status = 500
    /\ Len(response.envelope) = 2
    /\ raw_data = EmptyList
    /\ Len(printed) > 0

\* C2: on status 200 fetch_data returns the second element of the envelope
\* as it is when the envelope has two elements or more, and the empty list,
\* without raising, when it has fewer.
C2_FetchSuccess ==
    (pc = "process" /\ response.status = HTTP_OK) =>
        /\ error = ""
        /\ Len(response.envelope) >= 2 => raw_data = response.envelope[2]
        /\ Len(response.envelope) < 2 => raw_data = EmptyList

\* a three-element envelope whose records array came back
C2_Witness ==
    /\ pc = "process"
    /\ response.status = HTTP_OK
    /\ Len(response.envelope) = 3
    /\ Truthy(raw_data)
    /\ raw_data = response.envelope[2]

\* C3: no row of a table returned by process_data has a null Country Code,
\* Year or Value.
C3_NormalizeNullSafety ==
    \A n \in DOMAIN all_data :
        \A k \in 1..Len(all_data[n].rows) :
            /\ all_data[n].rows[k]["Country Code"] # None
            /\ all_data[n].rows[k]["Year"] # None
            /\ all_data[n].rows[k]["Value"] # None

\* two records, one of them with a null value, one row left
C3_Witness ==
    /\ Population \in DOMAIN all_data
    /\ Len(raw_data.items) = 2
    /\ \E k \in 1..2 : raw_data.items[k].value = None /\ raw_data.items[k].date # None
    /\ Len(all_data[Population].rows) = 1

\* C4: for a non-empty series process_data returns, in the order of the
\* input, one row for each record whose entity code, year and value are all
\* non-null, with that record's code, its year as an integer and its value;
\* the records dropped are those with a null in one of the three fields, so
\* a null in another field never drops a row.
C4_NormalizeRows ==
    (Population \in DOMAIN all_data /\ Truthy(raw_data)) =>
        LET kept == SelectSeq(raw_data.items, Complete)
            t    == all_data[Population]
        IN  /\ t.columns = <<"Country Code", "Year", "Value">>
            /\ Len(t.rows) = Len(kept)
            /\ \A k \in 1..Len(kept) :
                 /\ DOMAIN t.rows[k] = {"Country Code", "Year", "Value"}
                 /\ t.rows[k]["Country Code"] = kept[k].countryiso3code
                 /\ t.rows[k]["Year"] = <<YearOf(kept[k].date[1])>>
                 /\ Len(t.rows[k]["Value"]) = 1
                 /\ FloatValue(t.rows[k]["Value"][1]) = kept[k].value[1]

\* two complete records, one with a null in the fourth field, both kept
C4_Witness ==
    /\ Population \in DOMAIN all_data
    /\ Len(raw_data.items) = 2
    /\ \E k \in 1..2 : raw_data.items[k].obs_status = None /\ Complete(raw_data.items[k])
    /\ Len(all_data[Population].rows) = 2
    /\ all_data[Population].rows[1]["Value"] # all_data[Population].rows[2]["Value"]

\* C5: for every pair of tables returned by process_data, the empty ones
\* included, the merge yields a table whose (Country Code, Year) keys are
\* the union of the keys of the two tables.
C5_MergeCompleteness ==
    MergeDone =>
        /\ pc # "crashed"
        /\ KeysOf(merged_df, MergeOn) =
             KeysOf(all_data[Population], MergeOn) \cup KeysOf(all_data[NetMigration], MergeOn)

\* what the code does keep: the union of the keys whenever pd.merge returns
C5_KeysWhenMerged ==
    pc \in {"copy", "serve"} =>
        KeysOf(merged_df, MergeOn) =
            KeysOf(all_data[Population], MergeOn) \cup KeysOf(all_data[NetMigration], MergeOn)

\* the merged rows with the key of a source row
RowsWithKey(f, key) == {k \in 1..Len(f.rows) : KeyOf(f.rows[k], MergeOn) = key}

\* the merged rows of a key that only one table has carry that table's
\* values of the key in its metric's column and null in the other's
OneSided(key, own, ownColumn, otherColumn) ==
    /\ {merged_df.rows[k][ownColumn] : k \in RowsWithKey(merged_df, key)}
         = {own.rows[k]["Value"] : k \in RowsWithKey(own, key)}
    /\ Cardinality(RowsWithKey(merged_df, key)) = Cardinality(RowsWithKey(own, key))
    /\ \A k \in RowsWithKey(merged_df, key) : merged_df.rows[k][otherColumn] = None

Fidelity ==
    LET t1 == all_data[Population]
        t2 == all_data[NetMigration]
        k1 == KeysOf(t1, MergeOn)
        k2 == KeysOf(t2, MergeOn)
    IN  /\ \A key \in k1 \ k2 : OneSided(key, t1, "Value_Population", "Value_Net Migration")
        /\ \A key \in k2 \ k1 : OneSided(key, t2, "Value_Net Migration", "Value_Population")

\* C6: for every key that exactly one of the two input tables has, the
\* merged table has the row of that key, with the source value in that
\* table's metric column and null in the other metric's column.
C6_MergeFidelity == MergeDone => Fidelity

\* what the code does keep: the fidelity whenever pd.merge returns
C6_FidelityWhenMerged == pc \in {"copy", "serve"} => Fidelity

Failed(indicator) ==
    \E k \in 1..Len(printed) :
        printed[k].indicator = indicator /\ printed[k].msg = "Failed to fetch data"

\* C7: when the population fetch succeeds and the net-migration fetch gets
\* a non-success response, the start-up completes without an error and the
\* merge yields the population rows, each with a null net-migration value.
C7_FailSoftPipeline ==
    (/\ MergeDone
     /\ Failed(indicators[NetMigration])
     /\ ~Failed(indicators[Population])
     /\ all_data[Population].rows # <<>>) =>
        /\ all_data[NetMigration].rows = <<>>
        /\ pc # "crashed"
        /\ error = ""
        /\ Len(merged_df.rows) = Len(all_data[Population].rows)
        /\ \A r \in Range(merged_df.rows) :
             /\ "Value_Net Migration" \in DOMAIN r
             /\ r["Value_Net Migration"] = None
             /\ \E p \in Range(all_data[Population].rows) :
                  /\ KeyOf(p, MergeOn) = KeyOf(r, MergeOn)
                  /\ p["Value"] = r["Value_Population"]

\* C8: no invocation of update_dashboard changes the module-level table df,
\* and an invocation with the arguments of the one before it yields the
\* same filtered rows.
C8_FilterPurity ==
    [][pc = "serve" =>
          /\ df' = df
          /\ merged_df' = merged_df
          /\ callback_args' = callback_args => data' = data]_vars

\* a query that filtered rows out has been answered
C8_Witness ==
    /\ pc = "serve"
    /\ callback_args # NoArgs
    /\ Len(data) < Len(df.rows)
    /\ df = merged_df

\* C9: the rows update_dashboard returns are the rows of df whose Country
\* Code is selected and whose Year lies between the two bounds, both
\* included, in the order of df; no other column decides.
C9_FilterPredicate ==
    (pc = "serve" /\ callback_args # NoArgs) =>
        LET S  == callback_args.selected_countries
            lo == callback_args.selected_year_range[1]
            hi == callback_args.selected_year_range[2]
            In(r) == r["Country Code"][1] \in S /\ lo <= r["Year"][1] /\ r["Year"][1] <= hi
        IN  /\ data = SelectSeq(df.rows, In)
            /\ columns = [k \in 1..Len(df.columns) |->
                            [name |-> df.columns[k], id |-> df.columns[k]]]

\* a row on the upper bound with a null metric is returned, another row is not
C9_Witness ==
    /\ pc = "serve"
    /\ Len(data) < Len(df.rows)
    /\ \E r \in Range(data) :
         /\ r["Value_Net Migration"] = None
         /\ r["Year"][1] = callback_args.selected_year_range[2]
         /\ callback_args.selected_year_range[1] < r["Year"][1]

\* C10: fetch_data is called once per indicator, Population first, each
\* result is processed before the next fetch, pd.merge is called once,
\* after both fetches, and neither is called again once queries are served.
C10_StartupOrdering ==
    [][/\ \A n \in Range(IndicatorNames) : fetch_calls'[n] <= 1
       /\ merge_calls' <= 1
       /\ fetch_calls'[NetMigration] # fetch_calls[NetMigration] =>
            (fetch_calls[Population] = 1 /\ Population \in DOMAIN all_data)
       /\ fetch_calls'[Population] # fetch_calls[Population] =>
            (fetch_calls[NetMigration] = 0 /\ DOMAIN all_data = {})
       /\ merge_calls' # merge_calls =>
            /\ \A n \in Range(IndicatorNames) : fetch_calls[n] = 1
            /\ DOMAIN all_data = Range(IndicatorNames)
       /\ pc' \in {"copy", "serve", "crashed"} =>
            /\ \A n \in Range(IndicatorNames) : fetch_calls'[n] = 1
            /\ merge_calls' = 1
       /\ pc = "serve" => UNCHANGED <<fetch_calls, merge_calls, all_data, merged_df>>]_vars

\* queries are being answered after a start-up of two fetches and one merge
C10_Witness ==
    /\ pc = "serve"
    /\ callback_args # NoArgs
    /\ \A n \in Range(IndicatorNames) : fetch_calls[n] = 1
    /\ merge_calls = 1

====
